---- MODULE Spec2Model ----
(***************************************************************************)
(* Model of the ya-runtime-emscripten command line (src/src/main.rs):      *)
(* path normalisation, mount provisioning (deploy), mount resolution       *)
(* (resolve-path) and entry point execution (open / exec) against one      *)
(* working directory.                                                      *)
(*                                                                         *)
(* A path is a sequence of one-character strings, "/" being the separator. *)
(* Host directory identifiers and the working directory are opaque tokens  *)
(* that contain no separator.                                              *)
(***************************************************************************)
EXTENDS Naturals, Sequences, FiniteSets

VARIABLES
    dirs,       \* names of the directories that exist directly under workdir
    file,       \* workdir/mounts.json: [exists, valid, bytes]
    created,    \* history: directories created by a Deploy
    assigned,   \* history: identifiers ever persisted in a mapping entry
    provisioned,\* history: some Deploy has completed successfully
    cmd,        \* the last command invocation and its inputs
    status,     \* its outcome: "ok" or the kind of the error
    failIdx,    \* Deploy: index of the mount point whose create_dir failed
    stdout,     \* Resolve: the structured result printed
    log,        \* Open/Exec: the sandbox calls made, in order
    comps,      \* normalize_path: the component sequence of the input
    result      \* normalize_path: the io::Result returned

vars == <<dirs, file, created, assigned, provisioned, cmd, status, failIdx, stdout, log,
          comps, result>>

----------------------------------------------------------------------------
(* Bounds *)

MaxLen == 5
MaxComps == 4
NumIds == 3

----------------------------------------------------------------------------
(* std::path: components, join, starts_with, strip_prefix (unix rules) *)

SEP == "/"

RootDir == [kind |-> "RootDir", name |-> <<>>]
Prefix == [kind |-> "Prefix", name |-> <<>>]
CurDir == [kind |-> "CurDir", name |-> <<>>]
ParentDir == [kind |-> "ParentDir", name |-> <<>>]
Normal(n) == [kind |-> "Normal", name |-> n]

RECURSIVE SplitFrom(_, _, _)
\* the separator-delimited segments of path[i..], cur being the segment so far
SplitFrom(path, i, cur) ==
    IF i > Len(path) THEN <<cur>>
    ELSE IF path[i] = SEP THEN <<cur>> \o SplitFrom(path, i + 1, <<>>)
    ELSE SplitFrom(path, i + 1, Append(cur, path[i]))

RECURSIVE SegComponents(_, _)
\* empty segments and inner "." produce no component; a leading "." does
SegComponents(segs, i) ==
    IF i > Len(segs) THEN <<>>
    ELSE LET s == segs[i]
             c == IF s = <<>> THEN <<>>
                  ELSE IF s = <<".">> THEN (IF i = 1 THEN <<CurDir>> ELSE <<>>)
                  ELSE IF s = <<".", ".">> THEN <<ParentDir>>
                  ELSE <<Normal(s)>>
         IN c \o SegComponents(segs, i + 1)

Components(path) ==
    (IF Len(path) > 0 /\ path[1] = SEP THEN <<RootDir>> ELSE <<>>)
        \o SegComponents(SplitFrom(path, 1, <<>>), 1)

\* PathBuf::join with a relative part
join(path, part) ==
    IF Len(path) > 0 /\ path[Len(path)] # SEP
    THEN path \o <<SEP>> \o part
    ELSE path \o part

IsPrefixSeq(s, t) == Len(s) <= Len(t) /\ SubSeq(t, 1, Len(s)) = s

\* mutant: prefix of the string instead of the component sequence
starts_with_str(path, base) == IsPrefixSeq(base, path)

starts_with(path, base) == IsPrefixSeq(Components(base), Components(path))

RECURSIVE JoinNames(_, _)
JoinNames(cs, i) ==
    IF i > Len(cs) THEN <<>>
    ELSE IF i = Len(cs) THEN cs[i].name
    ELSE cs[i].name \o <<SEP>> \o JoinNames(cs, i + 1)

\* the rest of a relative path of named components after the components of base
strip_prefix(path, base) ==
    JoinNames(Components(path), Len(Components(base)) + 1)

----------------------------------------------------------------------------
(* normalize_path *)

Ok(p) == [ok |-> TRUE, path |-> p, err |-> "none"]
Err(e) == [ok |-> FALSE, path |-> <<>>, err |-> e]
\* normalize_path has not been called
Pending == [ok |-> FALSE, path |-> <<>>, err |-> "pending"]

\* mutant: a component of another kind is skipped instead of rejected
NormalizeStep_SkipOther(agg, part) ==
    IF agg.ok /\ part.kind = "Normal" THEN Ok(join(agg.path, part.name))
    ELSE agg

\* mutant: the root marker is joined, which makes the path absolute
NormalizeStep_KeepRoot(agg, part) ==
    IF agg.ok /\ part.kind = "RootDir" THEN Ok(<<SEP>>)
    ELSE IF agg.ok /\ part.kind = "Prefix" THEN Ok(agg.path)
    ELSE IF agg.ok /\ part.kind = "Normal" THEN Ok(join(agg.path, part.name))
    ELSE Err("PermissionDenied")

NormalizeStep(agg, part) ==
    IF agg.ok /\ part.kind = "RootDir" THEN Ok(agg.path)
    ELSE IF agg.ok /\ part.kind = "Prefix" THEN Ok(agg.path)
    ELSE IF agg.ok /\ part.kind = "Normal" THEN Ok(join(agg.path, part.name))
    ELSE Err("PermissionDenied")

RECURSIVE Fold(_, _, _)
Fold(cs, i, agg) ==
    IF i > Len(cs) THEN agg ELSE Fold(cs, i + 1, NormalizeStep(agg, cs[i]))

NormalizeComponents(cs) == Fold(cs, 1, Ok(<<>>))

normalize_path(path) == NormalizeComponents(Components(path))

----------------------------------------------------------------------------
(* Path::file_name, extension, set_extension, with_extension; the lookup key *)

RECURSIVE LastIndexOf(_, _, _)
\* the greatest index <= i of character c in s, 0 when there is none
LastIndexOf(s, c, i) ==
    IF i = 0 THEN 0 ELSE IF s[i] = c THEN i ELSE LastIndexOf(s, c, i - 1)

RECURSIVE TrimmedLen(_, _)
\* the length of p[1..n] without the trailing separators and "." segments,
\* which yield no component
TrimmedLen(p, n) ==
    IF n = 0 THEN 0
    ELSE IF p[n] = SEP THEN TrimmedLen(p, n - 1)
    ELSE IF p[n] = "." /\ n >= 2 /\ p[n - 1] = SEP THEN TrimmedLen(p, n - 1)
    ELSE n

\* Path::file_name: the last component when it is a name, with its place in p
file_name(p) ==
    LET e == TrimmedLen(p, Len(p))
        ls == LastIndexOf(p, SEP, e)
        name == SubSeq(p, ls + 1, e)
    IN [some |-> name \notin {<<>>, <<".">>, <<".", ".">>},
        name |-> name, from |-> ls + 1]

\* rsplit_file_at_dot: the name split at its last dot; a name with no dot or
\* with its only dot in front has no extension and is its own stem
rsplit_file_at_dot(name) ==
    LET ld == LastIndexOf(name, ".", Len(name))
    IN IF name = <<".", ".">> \/ ld <= 1
       THEN [stem |-> name, has_ext |-> FALSE, ext |-> <<>>]
       ELSE [stem |-> SubSeq(name, 1, ld - 1), has_ext |-> TRUE,
             ext |-> SubSeq(name, ld + 1, Len(name))]

\* PathBuf::set_extension: no change without a file name; else cut right
\* after the file stem and add "." and the extension
set_extension(p, ext) ==
    LET fn == file_name(p)
        stem == rsplit_file_at_dot(fn.name).stem
    IN IF ~fn.some THEN p
       ELSE SubSeq(p, 1, fn.from - 1 + Len(stem))
                \o (IF ext # <<>> THEN <<".">> \o ext ELSE <<>>)

\* Path::with_extension: the path without the bytes of its extension (the
\* dot stays), then set_extension on that; "..a" is cut to "..", which has no
\* file name and stays ".."
with_extension(p, ext) ==
    LET fn == file_name(p)
        sp == rsplit_file_at_dot(fn.name)
        cut == IF fn.some /\ sp.has_ext THEN Len(sp.ext) ELSE 0
    IN set_extension(SubSeq(p, 1, Len(p) - cut), ext)

to_string_lossy(p) == p

----------------------------------------------------------------------------
(* serde_json: the persisted form of Vec<(String, MountPoint)> *)

IdTok(id) == [id |-> id]
MpTok(mp) == [mp |-> mp]

RECURSIVE to_vec_pretty(_)
\* one identifier token and one mount point token per entry, in order
to_vec_pretty(args) ==
    IF args = <<>> THEN <<>>
    ELSE <<IdTok(args[1][1]), MpTok(args[1][2])>> \o to_vec_pretty(Tail(args))

from_slice(bytes) ==
    [i \in 1..(Len(bytes) \div 2) |-> <<bytes[2 * i - 1].id, bytes[2 * i].mp>>]

----------------------------------------------------------------------------
(* Images, manifests and command inputs *)

AllIds == <<"u1", "u2", "u3", "u4", "u5", "u6">>
Ids == {AllIds[i] : i \in 1..NumIds}

WORKDIR == <<"W">>
JS == <<"j", "s">>

MP(p) == [path |-> p]
EP(id, wasm) == [id |-> id, wasm_path |-> wasm]

P_d == <<SEP, "d">>
P_dc == <<SEP, "d", SEP, "c">>
P_db == <<SEP, "d", "b">>
P_up == <<".", ".", SEP, "x">>
P_root == <<SEP>>
W_rel == <<"b", SEP, "r", ".", "w">>
W_abs == <<SEP, "b", SEP, "r", ".", "w">>
W_up == <<".", ".", SEP, "r", ".", "w">>
W_c == <<"c", ".", "w">>
W_dots == <<".", ".", "a">>
F_rw == <<"b", SEP, "r", ".", "w">>
F_rjs == <<"b", SEP, "r", ".", "j", "s">>

Image(name, entry, m, files) ==
    [name |-> name, entry |-> entry, m |-> m, files |-> files]

Manifest(wd, mps, main, eps) ==
    [work_dir |-> wd, mount_points |-> mps, main |-> main, entry_points |-> eps]

EmptyManifest == Manifest(<<>>, <<>>, <<>>, <<>>)

Images == {
    Image("i1", "ok",
          Manifest(<<>>, <<MP(P_d), MP(P_dc)>>, <<EP("run", W_rel)>>,
                   <<EP("run", W_rel)>>),
          {F_rw, F_rjs}),
    Image("i2", "ok",
          Manifest(<<"wd">>, <<MP(P_up), MP(P_d)>>, <<>>,
                   <<EP("Run", W_abs), EP("bad", W_up)>>),
          {F_rw, F_rjs}),
    Image("i3", "missing", EmptyManifest, {F_rw}),
    Image("i4", "ok",
          Manifest(<<>>, <<MP(P_root)>>, <<EP("main", W_c)>>, <<>>),
          {W_c}),
    Image("i5", "malformed", EmptyManifest, {}),
    Image("i6", "ok",
          Manifest(<<>>, <<MP(P_db), MP(P_up)>>, <<>>,
                   <<EP("run", W_rel), EP("run", W_c), EP("bad", W_dots)>>),
          {F_rw, F_rjs, W_c, W_dots, <<".", ".", "j", "s">>}) }

Progs == {"run", "Run", "bad"}

Destinations == {
    <<SEP, "d", SEP, "c", SEP, "x">>,
    <<SEP, "d">>,
    <<SEP, "d", "b">>,
    <<SEP, "o">>,
    <<"d", SEP, SEP, "c", SEP>>,
    <<SEP, "d", SEP, ".", ".", SEP, "o">> }

----------------------------------------------------------------------------
(* The working directory and the commands *)

NoFile == [exists |-> FALSE, valid |-> FALSE, bytes |-> <<>>]
Truncated == [exists |-> TRUE, valid |-> FALSE, bytes |-> <<>>]
NoOut == [kind |-> "none", path |-> <<>>]

Cmd(name, image, prog, dest, ids, fault, k) ==
    [name |-> name, image |-> image, prog |-> prog, dest |-> dest,
     ids |-> ids, fault |-> fault, k |-> k]
NoCmd == Cmd("none", "", "", <<>>, <<>>, "none", 0)

\* load_manifest: "ok" or the kind of its error
load_manifest(image, fault) ==
    IF fault = "load_manifest" THEN "io"
    ELSE IF image.entry = "missing" THEN "entry_not_found"
    ELSE IF image.entry = "malformed" THEN "malformed"
    ELSE "ok"

\* mutant: a missing mounts.json reads as the empty mapping
read_mounts_or_default(f) ==
    IF ~f.exists THEN [status |-> "ok", mounts |-> <<>>]
    ELSE IF ~f.valid THEN [status |-> "malformed", mounts |-> <<>>]
    ELSE [status |-> "ok", mounts |-> from_slice(f.bytes)]

\* std::fs::read + serde_json::from_slice of workdir/mounts.json
read_mounts(f) ==
    IF ~f.exists THEN [status |-> "io", mounts |-> <<>>]
    ELSE IF ~f.valid THEN [status |-> "malformed", mounts |-> <<>>]
    ELSE [status |-> "ok", mounts |-> from_slice(f.bytes)]

\* mutant: create_dir_all, which accepts a directory that exists
create_dir_all(ds, id, faulty) == ~faulty

\* std::fs::create_dir: fails when the directory exists (or on an I/O fault)
create_dir(ds, id, faulty) == ~faulty /\ id \notin ds

RECURSIVE CreateLoop_Prepend(_, _, _, _, _, _)
\* mutant: the pair is inserted at the front of args
CreateLoop_Prepend(mps, ids, i, ds, args, faultK) ==
    IF i > Len(mps) THEN [ok |-> TRUE, k |-> 0, dirs |-> ds, args |-> args]
    ELSE IF faultK = i \/ ids[i] \in ds
         THEN [ok |-> FALSE, k |-> i, dirs |-> ds, args |-> args]
    ELSE CreateLoop_Prepend(mps, ids, i + 1, ds \cup {ids[i]},
                            <<<<ids[i], mps[i]>>>> \o args, faultK)

RECURSIVE CreateLoop_Rollback(_, _, _, _, _, _)
\* mutant: a failed create_dir removes the directories created before it
CreateLoop_Rollback(mps, ids, i, ds, args, faultK) ==
    IF i > Len(mps) THEN [ok |-> TRUE, k |-> 0, dirs |-> ds, args |-> args]
    ELSE IF faultK = i \/ ids[i] \in ds
         THEN [ok |-> FALSE, k |-> i,
               dirs |-> ds \ {args[j][1] : j \in 1..Len(args)}, args |-> args]
    ELSE CreateLoop_Rollback(mps, ids, i + 1, ds \cup {ids[i]},
                             Append(args, <<ids[i], mps[i]>>), faultK)

RECURSIVE CreateLoop(_, _, _, _, _, _)
\* the loop of Create::execute from mount point i on: ds the directories that
\* exist, args the pairs pushed so far, faultK the index of an injected fault
CreateLoop(mps, ids, i, ds, args, faultK) ==
    IF i > Len(mps) THEN [ok |-> TRUE, k |-> 0, dirs |-> ds, args |-> args]
    ELSE IF ~create_dir(ds, ids[i], faultK = i)
         THEN [ok |-> FALSE, k |-> i, dirs |-> ds, args |-> args]
    ELSE CreateLoop(mps, ids, i + 1, ds \cup {ids[i]},
                    Append(args, <<ids[i], mps[i]>>), faultK)

RECURSIVE SeqOfIds(_)
SeqOfIds(args) ==
    IF args = <<>> THEN <<>> ELSE <<args[1][1]>> \o SeqOfIds(Tail(args))

Outcome(c, st, k, out, lg) ==
    /\ cmd' = c
    /\ status' = st
    /\ failIdx' = k
    /\ stdout' = out
    /\ log' = lg

\* no command is running: invocations on one working directory are serial
Idle == cmd.name = "none"

\* main returns: the process, its outcome and its output are gone, the
\* working directory stays
Exit ==
    /\ ~Idle
    /\ Outcome(NoCmd, "none", 0, NoOut, <<>>)
    /\ UNCHANGED <<dirs, file, created, assigned, provisioned, comps, result>>

DeployFaults(n) ==
    {<<"none", 0>>, <<"load_manifest", 0>>, <<"write", 0>>}
        \cup {<<"create_dir", k>> : k \in 1..n}

\* Create::execute
Deploy ==
    /\ Idle
    /\ \E image \in Images :
      \E f \in DeployFaults(Len(image.m.mount_points)) :
        LET loaded == load_manifest(image, f[1])
            n == IF loaded # "ok" THEN 0
                 ELSE IF f[1] = "create_dir" THEN f[2]
                 ELSE Len(image.m.mount_points)
        IN \E ids \in [1..n -> Ids] :
             LET r == CreateLoop(SubSeq(image.m.mount_points, 1, n), ids, 1,
                                 dirs, <<>>,
                                 IF f[1] = "create_dir" THEN f[2] ELSE 0)
                 \* the identifiers generated: none after a failed create_dir
                 generated == IF r.ok THEN ids ELSE SubSeq(ids, 1, r.k)
                 c == Cmd("deploy", image.name, "", <<>>, generated, f[1], f[2])
             IN /\ IF loaded # "ok"
                   THEN /\ Outcome(c, loaded, 0, NoOut, <<>>)
                        /\ UNCHANGED <<dirs, file, created, assigned, provisioned>>
                   ELSE /\ dirs' = r.dirs
                        /\ created' = created \cup (r.dirs \ dirs)
                        /\ IF ~r.ok
                           THEN /\ Outcome(c, "create_dir", r.k, NoOut, <<>>)
                                /\ UNCHANGED <<file, assigned, provisioned>>
                           ELSE IF f[1] = "write"
                           THEN /\ Outcome(c, "write", 0, NoOut, <<>>)
                                /\ file' \in {file, Truncated}
                                /\ UNCHANGED <<assigned, provisioned>>
                           ELSE /\ Outcome(c, "ok", 0, NoOut, <<>>)
                                /\ file' = [exists |-> TRUE, valid |-> TRUE,
                                            bytes |-> to_vec_pretty(r.args)]
                                /\ assigned' = assigned \o SeqOfIds(r.args)
                                /\ provisioned' = TRUE
                /\ UNCHANGED <<comps, result>>

Resolved(p) == [kind |-> "resolvedPath", path |-> p]
Unresolved == [kind |-> "unresolvedPath", path |-> <<>>]

RECURSIVE ResolveLoop_LastMatch(_, _, _)
\* mutant: the loop does not stop at the first match, so the last one wins
ResolveLoop_LastMatch(mounts, i, work_dir) ==
    IF i > Len(mounts) THEN [status |-> "ok", out |-> Unresolved]
    ELSE LET dest == mounts[i][1]
             mount_path == normalize_path(mounts[i][2].path)
             rest == ResolveLoop_LastMatch(mounts, i + 1, work_dir)
         IN IF ~mount_path.ok THEN [status |-> mount_path.err, out |-> NoOut]
            ELSE IF rest.status = "ok" /\ rest.out # Unresolved THEN rest
            ELSE IF starts_with(work_dir, mount_path.path)
            THEN [status |-> "ok",
                  out |-> Resolved(join(join(WORKDIR, <<dest>>),
                                        strip_prefix(work_dir, mount_path.path)))]
            ELSE rest

RECURSIVE ResolveLoop(_, _, _)
\* the loop of Resolve::execute from entry i on; work_dir is the normalised
\* destination
ResolveLoop(mounts, i, work_dir) ==
    IF i > Len(mounts) THEN [status |-> "ok", out |-> Unresolved]
    ELSE LET dest == mounts[i][1]
             mount_path == normalize_path(mounts[i][2].path)
         IN IF ~mount_path.ok THEN [status |-> mount_path.err, out |-> NoOut]
            ELSE IF starts_with(work_dir, mount_path.path)
            THEN [status |-> "ok",
                  out |-> Resolved(join(join(WORKDIR, <<dest>>),
                                        strip_prefix(work_dir, mount_path.path)))]
            ELSE ResolveLoop(mounts, i + 1, work_dir)

\* Resolve::execute
ResolvePath ==
    /\ Idle
    /\ \E destination \in Destinations :
        LET c == Cmd("resolve", "", "", destination, <<>>, "none", 0)
            rm == read_mounts(file)
            work_dir == normalize_path(destination)
            r == ResolveLoop(rm.mounts, 1, work_dir.path)
        IN /\ IF rm.status # "ok" THEN Outcome(c, rm.status, 0, NoOut, <<>>)
              ELSE IF ~work_dir.ok THEN Outcome(c, work_dir.err, 0, NoOut, <<>>)
              ELSE Outcome(c, r.status, 0, r.out, <<>>)
           /\ UNCHANGED <<dirs, file, created, assigned, provisioned, comps, result>>

----------------------------------------------------------------------------
(* run_ep, Open and Exec *)

Call(op, a, b, mode) == [op |-> op, a |-> a, b |-> b, mode |-> mode, ok |-> TRUE]

RECURSIVE MountCalls(_)
\* one read-write mount of workdir/<identifier> per mapping entry, in order
MountCalls(mounts) ==
    IF mounts = <<>> THEN <<>>
    ELSE <<Call("mount", join(WORKDIR, <<mounts[1][1]>>), mounts[1][2].path, "Rw")>>
            \o MountCalls(Tail(mounts))

\* the sandbox calls of run_ep before mounts.json is read
CallsBeforeRead(m) ==
    <<Call("new", <<>>, <<>>, "")>>
        \o (IF m.work_dir # <<>> THEN <<Call("work_dir", m.work_dir, <<>>, "")>>
            ELSE <<>>)

\* mutant: the image is mounted after the provisioned directories
CallsAfterRead_ImageLast(image, mounts, js_path, wasm_path) ==
    <<Call("set_exec_args", <<>>, <<>>, ""),
      Call("init", <<>>, <<>>, "")>>
        \o MountCalls(mounts)
        \o <<Call("mount", <<image.name>>, <<"@">>, "Ro"),
             Call("run", js_path, wasm_path, "")>>

\* the sandbox calls of run_ep after mounts.json is read
CallsAfterRead(image, mounts, js_path, wasm_path) ==
    <<Call("set_exec_args", <<>>, <<>>, ""),
      Call("init", <<>>, <<>>, ""),
      Call("mount", <<image.name>>, <<"@">>, "Ro")>>
        \o MountCalls(mounts)
        \o <<Call("run", js_path, wasm_path, "")>>

\* the calls made when the k-th call fails (k = 0: none fails): a failure
\* returns from run_ep, so no later call is made
CallsUntil(calls, k) ==
    IF k \in 1..Len(calls)
    THEN SubSeq(calls, 1, k - 1) \o <<[calls[k] EXCEPT !.ok = FALSE]>>
    ELSE calls

run_ep(image, f, ep, m, fault, k) ==
    LET wasm_path == normalize_path(ep.wasm_path)
        js_path == with_extension(wasm_path.path, JS)
        before == CallsBeforeRead(m)
        rm == read_mounts(f)
        all == before \o CallsAfterRead(image, rm.mounts, js_path, wasm_path.path)
    IN IF ~wasm_path.ok THEN [status |-> wasm_path.err, log |-> <<>>]
       ELSE IF fault = "open_image" THEN [status |-> "io", log |-> <<>>]
       ELSE IF to_string_lossy(wasm_path.path) \notin image.files
            THEN [status |-> "entry_not_found", log |-> <<>>]
       ELSE IF to_string_lossy(js_path) \notin image.files
            THEN [status |-> "entry_not_found", log |-> <<>>]
       ELSE IF fault = "sandbox" /\ k \in 1..Len(before)
            THEN [status |-> "sandbox", log |-> CallsUntil(before, k)]
       ELSE IF rm.status # "ok" THEN [status |-> rm.status, log |-> before]
       ELSE IF fault = "sandbox" /\ k \in 1..Len(all)
            THEN [status |-> "sandbox", log |-> CallsUntil(all, k)]
       ELSE [status |-> "ok", log |-> all]

\* the sandbox calls a run of this image can reach in the current state
NumCalls(image) ==
    Len(CallsBeforeRead(image.m))
        + (IF read_mounts(file).status = "ok"
           THEN 4 + Len(read_mounts(file).mounts) ELSE 0)

RunFaults(image) ==
    {<<"none", 0>>, <<"load_manifest", 0>>, <<"open_image", 0>>}
        \cup {<<"sandbox", k>> : k \in 1..NumCalls(image)}

\* Open::execute
Open ==
    /\ Idle
    /\ \E image \in Images :
      \E f \in RunFaults(image) :
        LET c == Cmd("open", image.name, "", <<>>, <<>>, f[1], f[2])
            loaded == load_manifest(image, f[1])
            m == image.m
            r == run_ep(image, file, m.main[1], m, f[1], f[2])
        IN /\ IF loaded # "ok" THEN Outcome(c, loaded, 0, NoOut, <<>>)
              ELSE IF m.main # <<>> THEN Outcome(c, r.status, 0, NoOut, r.log)
              ELSE Outcome(c, "ok", 0, NoOut, <<>>)
           /\ UNCHANGED <<dirs, file, created, assigned, provisioned, comps, result>>

Lower(id) == IF id = "Run" THEN "run" ELSE id

\* mutant: identifiers are compared without regard to case
FindEntryPoint_IgnoreCase(eps, prog) ==
    IF \E i \in 1..Len(eps) : Lower(eps[i].id) = Lower(prog)
    THEN CHOOSE i \in 1..Len(eps) :
            /\ Lower(eps[i].id) = Lower(prog)
            /\ \A j \in 1..(i - 1) : Lower(eps[j].id) # Lower(prog)
    ELSE 0

\* m.entry_points.iter().find(|ep| ep.id == prog): index of the first, or 0
FindEntryPoint(eps, prog) ==
    IF \E i \in 1..Len(eps) : eps[i].id = prog
    THEN CHOOSE i \in 1..Len(eps) :
            /\ eps[i].id = prog
            /\ \A j \in 1..(i - 1) : eps[j].id # prog
    ELSE 0

\* Exec::execute
Exec ==
    /\ Idle
    /\ \E image \in Images :
      \E prog \in Progs :
        \E f \in RunFaults(image) :
          LET c == Cmd("exec", image.name, prog, <<>>, <<>>, f[1], f[2])
              loaded == load_manifest(image, f[1])
              m == image.m
              i == FindEntryPoint(m.entry_points, prog)
              r == run_ep(image, file, m.entry_points[i], m, f[1], f[2])
          IN /\ IF loaded # "ok" THEN Outcome(c, loaded, 0, NoOut, <<>>)
                ELSE IF i # 0 THEN Outcome(c, r.status, 0, NoOut, r.log)
                ELSE Outcome(c, "invalid_entry_point", 0, NoOut, <<>>)
             /\ UNCHANGED <<dirs, file, created, assigned, provisioned, comps, result>>

Init ==
    /\ dirs \in {{}, {AllIds[1]}}
    /\ file = NoFile
    /\ created = {}
    /\ assigned = <<>>
    /\ provisioned = FALSE
    /\ cmd = NoCmd
    /\ status = "none"
    /\ failIdx = 0
    /\ stdout = NoOut
    /\ log = <<>>
    /\ comps = <<>>
    /\ result = Pending

Next == Deploy \/ ResolvePath \/ Open \/ Exec \/ Exit

Spec == Init /\ [][Next]_vars

----------------------------------------------------------------------------
(* Inputs of the normalisation specification *)

Alphabet == {SEP, ".", "a", "b"}
Paths == UNION {[1..n -> Alphabet] : n \in 0..MaxLen}

BodyComps == {ParentDir, Normal(<<"a">>), Normal(<<"b">>), Normal(<<".", "a">>)}
\* component sequences an iterator over a path yields on some platform:
\* an optional prefix, an optional root or leading ".", then names and ".."
Heads == {<<>>, <<Prefix>>, <<RootDir>>, <<Prefix, RootDir>>, <<CurDir>>,
          <<Prefix, CurDir>>}
ComponentSeqs ==
    {h \o b : h \in Heads, b \in UNION {[1..n -> BodyComps] : n \in 0..MaxComps}}

workdirVars == <<dirs, file, created, assigned, provisioned, cmd, status, failIdx, stdout, log>>

InitNorm == Init

\* normalize_path applied to a path given as a string
NormalizeString ==
    /\ result = Pending
    /\ \E p \in Paths :
          /\ comps' = Components(p)
          /\ result' = normalize_path(p)
    /\ UNCHANGED workdirVars

\* the fold of normalize_path applied to a component sequence
NormalizeSeq ==
    /\ result = Pending
    /\ \E cs \in ComponentSeqs :
          /\ comps' = cs
          /\ result' = NormalizeComponents(cs)
    /\ UNCHANGED workdirVars

NextNorm == NormalizeString \/ NormalizeSeq

SpecNorm == InitNorm /\ [][NextNorm]_vars

----------------------------------------------------------------------------
(* C1, C2 *)

Allowed(c) == c.kind \in {"RootDir", "Prefix", "Normal"}

NamedOnly(cs) == SelectSeq(cs, LAMBDA c : c.kind = "Normal")

\* C1: a component sequence with at least one component that is neither a
\* root marker, a prefix nor a plain name (anywhere in it) is rejected as a
\* whole with a permission-denied error; no partial path is returned.
C1_FailClosed ==
    (result # Pending /\ \E i \in 1..Len(comps) : ~Allowed(comps[i]))
        => (~result.ok /\ result.err = "PermissionDenied" /\ result.path = <<>>)

C1_Witness ==
    /\ Len(comps) >= 3
    /\ comps[1].kind = "Normal"
    /\ comps[2].kind = "ParentDir"
    /\ comps[Len(comps)].kind = "Normal"
    /\ result = Err("PermissionDenied")

\* C2: a path of root, prefix and plain named components only normalises
\* successfully to exactly its named components in their original order: the
\* result has no root marker and no traversal component, and is the empty
\* relative path when there is no named component.
C2_NamedOnly ==
    (result # Pending /\ \A i \in 1..Len(comps) : Allowed(comps[i]))
        => /\ result.ok
           /\ Components(result.path) = NamedOnly(comps)
           /\ (NamedOnly(comps) = <<>> => result.path = <<>>)

C2_Witness ==
    /\ Len(comps) = 3
    /\ comps[1].kind = "RootDir"
    /\ comps[2] = Normal(<<"a">>)
    /\ comps[3] = Normal(<<"b">>)
    /\ result.ok
    /\ result.path = <<"a", SEP, "b">>

C2_WitnessRootOnly ==
    /\ comps = <<RootDir>>
    /\ result = Ok(<<>>)

----------------------------------------------------------------------------
(* Vocabulary of the claims about the commands *)

ImageNamed(n) == CHOOSE im \in Images : im.name = n

\* the persisted mapping, as read back from mounts.json
Mapping == from_slice(file.bytes)

Persisted == file.exists /\ file.valid

NoDuplicates(seq) ==
    \A i, j \in 1..Len(seq) : i # j => seq[i] # seq[j]

\* a path all of whose components are root markers, prefixes or names
Valid(p) == \A i \in 1..Len(Components(p)) : Allowed(Components(p)[i])

\* the named components of a path, i.e. the components of its normal form
Names(p) == NamedOnly(Components(p))

MatchAt(ms, i, dest) ==
    /\ Valid(dest)
    /\ Valid(ms[i][2].path)
    /\ IsPrefixSeq(Names(ms[i][2].path), Names(dest))

FirstMatch(ms, k, dest) ==
    /\ MatchAt(ms, k, dest)
    /\ \A j \in 1..(k - 1) : ~MatchAt(ms, j, dest)

\* stdout is the resolved path workdir/<identifier of entry k>/<remainder>
ResolvedTo(ms, k, dest) ==
    /\ stdout.kind = "resolvedPath"
    /\ Components(stdout.path) =
          <<Normal(WORKDIR), Normal(<<ms[k][1]>>)>>
              \o SubSeq(Names(dest), Len(Names(ms[k][2].path)) + 1,
                        Len(Names(dest)))

ResolveRan == cmd.name = "resolve" /\ Persisted

----------------------------------------------------------------------------
(* C3, C4: Resolve *)

\* C3 as claimed: Resolve picks the first entry, in persisted order, whose
\* normalised virtual path is a component-wise prefix of the normalised
\* destination, and prints workdir/<identifier>/<remaining components>.
C3_Original ==
    ResolveRan =>
        \A k \in 1..Len(Mapping) :
            FirstMatch(Mapping, k, cmd.dest)
                => (status = "ok" /\ ResolvedTo(Mapping, k, cmd.dest))

\* C3 amended: Resolve picks the first entry, in persisted order, whose
\* normalised virtual path is a component-wise prefix of the normalised
\* destination (first match, not longest, not raw string prefix) and prints
\* workdir/<identifier>/<remaining components>, when the virtual path of every
\* entry before it can be normalised; when an earlier entry's virtual path
\* cannot, Resolve fails with permission denied and prints nothing.
C3_FirstMatch ==
    ResolveRan =>
        \A k \in 1..Len(Mapping) :
            FirstMatch(Mapping, k, cmd.dest)
                => IF \A j \in 1..(k - 1) : Valid(Mapping[j][2].path)
                   THEN status = "ok" /\ ResolvedTo(Mapping, k, cmd.dest)
                   ELSE status = "PermissionDenied" /\ stdout = NoOut

\* mounts [(id1, /d), (id2, /d/c)], destination /d/c/x: workdir/id1/c/x
C3_Witness ==
    /\ ResolveRan
    /\ Len(Mapping) = 2
    /\ Mapping[1][2].path = P_d
    /\ Mapping[2][2].path = P_dc
    /\ cmd.dest = <<SEP, "d", SEP, "c", SEP, "x">>
    /\ status = "ok"
    /\ stdout.path = <<"W", SEP, Mapping[1][1], SEP, "c", SEP, "x">>

\* no entry's virtual path is a prefix of the destination, whether compared
\* in normal form, component by component, or as strings
NoPrefix(ms, dest) ==
    \A i \in 1..Len(ms) :
        /\ ~MatchAt(ms, i, dest)
        /\ ~IsPrefixSeq(Components(ms[i][2].path), Components(dest))
        /\ ~IsPrefixSeq(ms[i][2].path, dest)

\* C4 as claimed: for every persisted mapping and every destination that no
\* mount point's virtual path is a prefix of, Resolve succeeds and prints the
\* unresolved result.
C4_Original ==
    (ResolveRan /\ NoPrefix(Mapping, cmd.dest))
        => (status = "ok" /\ stdout = Unresolved)

\* C4 amended: for every persisted mapping and destination such that the
\* destination and every virtual path can be normalised and no normalised
\* virtual path is a prefix of the normalised destination, Resolve succeeds
\* and prints the unresolved result; when no entry matches and the
\* destination or a virtual path cannot be normalised, Resolve fails with
\* permission denied and prints nothing.
C4_Unresolved ==
    (ResolveRan /\ \A i \in 1..Len(Mapping) : ~MatchAt(Mapping, i, cmd.dest))
        => IF /\ Valid(cmd.dest)
              /\ \A i \in 1..Len(Mapping) : Valid(Mapping[i][2].path)
           THEN status = "ok" /\ stdout = Unresolved
           ELSE status = "PermissionDenied" /\ stdout = NoOut

\* mounts /d and /d/c, destination /db: unresolved
C4_Witness ==
    /\ ResolveRan
    /\ Len(Mapping) = 2
    /\ Mapping[1][2].path = P_d
    /\ cmd.dest = P_db
    /\ status = "ok"
    /\ stdout = Unresolved

----------------------------------------------------------------------------
(* C5, C8, C9: Deploy *)

\* C5: after a successful Deploy of a manifest with N mount points,
\* mounts.json reads back as N entries whose mount points are the manifest's
\* in declaration order, with pairwise distinct identifiers, each naming a
\* directory that exists under the working directory.
C5_RoundTrip ==
    (cmd.name = "deploy" /\ status = "ok")
        => LET mps == ImageNamed(cmd.image).m.mount_points
           IN /\ Persisted
              /\ Len(Mapping) = Len(mps)
              /\ \A i \in 1..Len(mps) :
                    /\ Mapping[i][2] = mps[i]
                    /\ Mapping[i][1] \in dirs
              /\ NoDuplicates([i \in 1..Len(Mapping) |-> Mapping[i][1]])

C5_Witness ==
    /\ cmd.name = "deploy"
    /\ status = "ok"
    /\ Len(Mapping) = 2
    /\ Mapping[1][2].path = P_d
    /\ Mapping[2][2].path = P_dc
    /\ {Mapping[1][1], Mapping[2][1]} \subseteq dirs

\* an identifier generated by the Deploy that has just run names a directory
\* that already existed, or repeats an identifier generated before it
Collides(ids, before) ==
    \E i \in 1..Len(ids) :
        ids[i] \in before \/ \E j \in 1..(i - 1) : ids[j] = ids[i]

\* C8: over any sequence of Deploys on one working directory no identifier
\* is assigned to two mapping entries; a Deploy that generates an identifier
\* whose directory exists fails at directory creation, persisting nothing.
C8_NoReuse ==
    [][(Idle /\ cmd'.name = "deploy" /\ cmd'.fault # "load_manifest")
        => /\ NoDuplicates(assigned')
           /\ (Collides(cmd'.ids, dirs)
                 => /\ status' = "create_dir"
                    /\ file' = file
                    /\ assigned' = assigned)]_vars

\* a generated identifier collided with the directory of a persisted entry
C8_Witness ==
    /\ cmd.name = "deploy"
    /\ cmd.fault = "none"
    /\ status = "create_dir"
    /\ \E i \in 1..Len(assigned) : assigned[i] = cmd.ids[Len(cmd.ids)]
    /\ Persisted

\* C9: when create_dir fails for the k-th mount point, Deploy stops with
\* that error: the directories of mount points 1..k-1 stay, no identifier is
\* generated and no directory created after the k-th, and mounts.json is not
\* written.
C9_NoRollback ==
    [][(Idle /\ cmd'.name = "deploy" /\ status' = "create_dir")
        => LET k == failIdx'
               n == Len(ImageNamed(cmd'.image).m.mount_points)
           IN /\ k \in 1..n
              /\ Len(cmd'.ids) = k
              /\ dirs' = dirs \cup {cmd'.ids[i] : i \in 1..(k - 1)}
              /\ Cardinality(dirs') = Cardinality(dirs) + (k - 1)
              /\ created' = created \cup {cmd'.ids[i] : i \in 1..(k - 1)}
              /\ file' = file
              /\ assigned' = assigned]_vars

\* the second of two directory creations failed, the first directory stays
\* and the earlier mapping file is kept
C9_Witness ==
    /\ cmd.name = "deploy"
    /\ status = "create_dir"
    /\ failIdx = 2
    /\ cmd.ids[1] \in dirs
    /\ cmd.ids[1] \notin {assigned[i] : i \in 1..Len(assigned)}
    /\ Persisted
    /\ Len(Mapping) > 0

----------------------------------------------------------------------------
(* C6, C7, C10: Open and Exec *)

RunRan == cmd.name \in {"open", "exec"}

\* the init, mount and run calls of the log, in order
SandboxOps(l) == SelectSeq(l, LAMBDA c : c.op \in {"init", "mount", "run"})

\* init, the image read-only at the confinement root, workdir/<identifier>
\* read-write at each entry's declared virtual path in persisted order, run
ExpectedOps(image, ms) ==
    [i \in 1..(Len(ms) + 3) |->
        IF i = 1 THEN [op |-> "init", a |-> <<>>, b |-> <<>>, mode |-> ""]
        ELSE IF i = 2
             THEN [op |-> "mount", a |-> <<image>>, b |-> <<"@">>, mode |-> "Ro"]
        ELSE IF i <= Len(ms) + 2
             THEN [op |-> "mount", a |-> <<"W", SEP, ms[i - 2][1]>>,
                   b |-> ms[i - 2][2].path, mode |-> "Rw"]
        ELSE [op |-> "run", a |-> <<>>, b |-> <<>>, mode |-> ""]]

SameCall(c, e) ==
    /\ c.op = e.op
    /\ c.op # "run" => (c.a = e.a /\ c.b = e.b /\ c.mode = e.mode)

\* C6: an execution of an entry point calls init, then mounts the image
\* read-only at the confinement root, then mounts workdir/<identifier>
\* read-write at each persisted entry's virtual path in persisted order, then
\* calls run once with the script and module taken from the archive; a
\* failed call is the last call, and run is reached only after init and
\* every mount succeeded.
C6_Order ==
    RunRan =>
        LET S == SandboxOps(log)
            E == ExpectedOps(cmd.image, IF Persisted THEN Mapping ELSE <<>>)
        IN /\ Len(S) <= Len(E)
           /\ ~Persisted => S = <<>>
           /\ \A i \in 1..Len(S) : SameCall(S[i], E[i])
           /\ \A i \in 1..(Len(log) - 1) : log[i].ok
           /\ \A i \in 1..Len(S) :
                 S[i].op = "run" =>
                    /\ i = Len(E)
                    /\ {S[i].a, S[i].b} \subseteq ImageNamed(cmd.image).files
                    /\ S[i].ok <=> status = "ok"
           /\ (status = "ok" /\ log # <<>>) => (Len(S) = Len(E) /\ S[Len(S)].ok)

\* init, image, two read-write mounts, run: all succeeded
C6_Witness ==
    /\ RunRan
    /\ status = "ok"
    /\ Persisted
    /\ Len(Mapping) = 2
    /\ Len(SandboxOps(log)) = 5
    /\ SandboxOps(log)[5].op = "run"
    /\ SandboxOps(log)[5].a = F_rjs

\* the first read-write mount failed: the second mount and run are not made
C6_WitnessAbort ==
    /\ RunRan
    /\ status = "sandbox"
    /\ Persisted
    /\ Len(Mapping) = 2
    /\ Len(SandboxOps(log)) = 3
    /\ ~SandboxOps(log)[3].ok

ManifestLoaded ==
    ImageNamed(cmd.image).entry = "ok" /\ cmd.fault # "load_manifest"

\* C7: Exec with a program identifier that is the id of no entry point of
\* the manifest (compared exactly) fails with an invalid-entry-point error
\* and makes no sandbox call.
C7_InvalidEntryPoint ==
    (/\ cmd.name = "exec"
     /\ ManifestLoaded
     /\ \A i \in 1..Len(ImageNamed(cmd.image).m.entry_points) :
            ImageNamed(cmd.image).m.entry_points[i].id # cmd.prog)
        => (status = "invalid_entry_point" /\ log = <<>>)

\* the manifest lists "Run", the program asked for is "run"
C7_Witness ==
    /\ cmd.name = "exec"
    /\ cmd.image = "i2"
    /\ cmd.prog = "run"
    /\ cmd.fault = "none"
    /\ Persisted
    /\ status = "invalid_entry_point"

WithEntryPoint ==
    \/ cmd.name \in {"exec", "resolve"}
    \/ cmd.name = "open" /\ ImageNamed(cmd.image).m.main # <<>>

\* C10: every read-write mount of Open/Exec has as source workdir/<id> for a
\* directory that a Deploy created and that exists; and on a working
\* directory where no Deploy has completed, Open and Exec with an entry point
\* and Resolve fail, mounting nothing and printing no result.
C10_ProvisionFirst ==
    /\ RunRan =>
          \A i \in 1..Len(log) :
              (log[i].op = "mount" /\ log[i].mode = "Rw")
                  => \E id \in created \cap dirs : log[i].a = <<"W", SEP, id>>
    /\ (~provisioned /\ WithEntryPoint)
          => /\ status \notin {"ok", "none"}
             /\ \A i \in 1..Len(log) : log[i].op \notin {"mount", "run"}
             /\ stdout = NoOut

\* a run on a provisioned directory that mounted a created directory
C10_Witness ==
    /\ RunRan
    /\ provisioned
    /\ \E i \in 1..Len(log) : log[i].mode = "Rw" /\ log[i].ok
    /\ status = "ok"

\* an entry point that is in the archive, run before any Deploy completed
C10_WitnessUnprovisioned ==
    /\ cmd.name = "exec"
    /\ cmd.image = "i1"
    /\ cmd.prog = "run"
    /\ cmd.fault = "none"
    /\ ~provisioned
    /\ status = "io"
    /\ Len(log) = 1

====
